---- MODULE Spec2Model ----
(***************************************************************************)
(* gommit-m: command line client for commit-m.                             *)
(*                                                                         *)
(* src/main.go holds two variants of the program.  Lines 1-241 are the     *)
(* variant with crawl(url) returning a QueryResult, the runewidth based    *)
(* column widths and the JSON renderer; lines 243-442 are the variant      *)
(* whose crawl(keyword, page) fetches, extracts and prints in one go.      *)
(* Definitions of the second variant carry the suffix 2.                   *)
(*                                                                         *)
(* A Go string is modelled as a sequence of characters, a character being  *)
(* a one-element TLA+ string, except for the East Asian wide glyph, which  *)
(* is written WideGlyph.                                                   *)
(***************************************************************************)
EXTENDS Integers, Sequences, FiniteSets, TLC

VARIABLES pc, doc, result, err, args, out

vars == <<pc, doc, result, err, args, out>>

(***************************************************************************)
(* Strings                                                                 *)
(***************************************************************************)
WideGlyph == "U+6F22"

WhiteSpace == {" ", "\n"}

Digits == {"0", "1", "2", "3", "4", "5", "6", "7", "8", "9"}

\* a value for the variables an operation does not use
None == <<>>

RECURSIVE TrimLeft(_)
TrimLeft(s) ==
    IF s # <<>> /\ Head(s) \in WhiteSpace THEN TrimLeft(Tail(s)) ELSE s

RECURSIVE TrimRight(_)
TrimRight(s) ==
    IF s # <<>> /\ s[Len(s)] \in WhiteSpace
    THEN TrimRight(SubSeq(s, 1, Len(s) - 1))
    ELSE s

\* strings.TrimSpace
TrimSpace(s) == TrimRight(TrimLeft(s))

RECURSIVE Concat(_)
Concat(ss) == IF ss = <<>> THEN <<>> ELSE Head(ss) \o Concat(Tail(ss))

Max(a, b) == IF a > b THEN a ELSE b

(***************************************************************************)
(* Errors: a Go error value is nil or carries a message.                   *)
(***************************************************************************)
NilError == [nil |-> TRUE, msg |-> <<>>]

FetchError == [nil |-> FALSE, msg |-> <<"d", "i", "a", "l">>]

(***************************************************************************)
(* The document: the rows of table.table, the div.container elements and   *)
(* the li elements of ul.pagination.                                       *)
(*   row       : sequence of cells                                         *)
(*   cell      : [tag, text, anchors], anchors the href of each <a> inside *)
(*               the cell, in document order, "" (<<>>) when the attribute *)
(*               is missing or empty                                       *)
(*   container : sequence of child nodes [type, data]; type 1 is a text    *)
(*               node (html.TextNode), type 3 an element                   *)
(*   pagination: sequence of [next_page, text]                             *)
(***************************************************************************)
Td(text, anchors) == [tag |-> "td", text |-> text, anchors |-> anchors]

Th(text, anchors) == [tag |-> "th", text |-> text, anchors |-> anchors]

\* line.Find("td"): the td cells of the row in document order
RECURSIVE FindTd(_)
FindTd(row) ==
    IF row = <<>> THEN <<>>
    ELSE IF Head(row).tag = "td" THEN <<Head(row)>> \o FindTd(Tail(row))
    ELSE FindTd(Tail(row))

(***************************************************************************)
(* crawl(url), first variant (lines 77-118)                                *)
(***************************************************************************)
\* cellsTxt := [3]string{"", "", ""}
CellSlots == 3

\* cellsHref := [2]string{"", ""}
HrefSlots == 2

\* the locals of the row callback; panic is Go's index out of range
RowStart ==
    [cellsTxt |-> [i \in 1..CellSlots |-> <<>>],
     cellsHref |-> [i \in 1..HrefSlots |-> <<>>],
     hrefIndex |-> 0,
     panic |-> FALSE]

\* s.Find("a").Each: every anchor with a non-empty href is stored at
\* cellsHref[hrefIndex] (0-based in the code, 1-based here)
RECURSIVE ScanAnchors(_, _)
ScanAnchors(st, anchors) ==
    IF anchors = <<>> \/ st.panic THEN st
    ELSE LET href == Head(anchors) IN
         IF href # <<>>
         THEN IF st.hrefIndex >= HrefSlots
              THEN [st EXCEPT !.panic = TRUE]
              ELSE ScanAnchors(
                     [st EXCEPT !.cellsHref[st.hrefIndex + 1] = href,
                                !.hrefIndex = st.hrefIndex + 1],
                     Tail(anchors))
         ELSE ScanAnchors(st, Tail(anchors))

\* line.Find("td").Each(func(i, s)): cellsTxt[i] = s.Text(), then the anchors
\* of the cell; i is the 0-based index among the td cells of the row
RECURSIVE ScanCells(_, _, _)
ScanCells(st, tds, i) ==
    IF tds = <<>> \/ st.panic THEN st
    ELSE IF i >= CellSlots
         THEN [st EXCEPT !.panic = TRUE]
         ELSE ScanCells(
                ScanAnchors([st EXCEPT !.cellsTxt[i + 1] = Head(tds).text],
                            Head(tds).anchors),
                Tail(tds), i + 1)

ScanRow(line) == ScanCells(RowStart, FindTd(line), 0)

\* the row callback with the two href slots exchanged
MakeCommitSwapped(st) ==
    [Message |-> TrimSpace(st.cellsTxt[1]),
     Repo |-> st.cellsTxt[2],
     RepoURL |-> st.cellsHref[2],
     Sha1 |-> st.cellsTxt[3],
     CommitURL |-> st.cellsHref[1]]

\* commit := commit{...} of the row callback
MakeCommit(st) ==
    [Message |-> TrimSpace(st.cellsTxt[1]),
     Repo |-> st.cellsTxt[2],
     RepoURL |-> st.cellsHref[1],
     Sha1 |-> st.cellsTxt[3],
     CommitURL |-> st.cellsHref[2]]

\* if commit.Sha1 != ""
Accepted(c) == c.Sha1 # <<>>

\* doc.Find("table.table tr").Each: the rows in document order; a panic in
\* a row ends the loop (and the program)
RECURSIVE EachRow(_, _)
EachRow(commits, rows) ==
    IF rows = <<>> THEN [commits |-> commits, panic |-> FALSE]
    ELSE LET st == ScanRow(Head(rows))
             c == MakeCommit(st)
         IN IF st.panic THEN [commits |-> commits, panic |-> TRUE]
            ELSE EachRow(IF Accepted(c) THEN Append(commits, c) ELSE commits,
                         Tail(rows))

(***************************************************************************)
(* getResultCount (lines 120-135)                                          *)
(***************************************************************************)
ResultsWord == <<" ", "r", "e", "s", "u", "l", "t", "s">>

\* end of the run of digits that starts at i (first index that is no digit)
RECURSIVE DigitsEnd(_, _)
DigitsEnd(s, i) ==
    IF i <= Len(s) /\ s[i] \in Digits THEN DigitsEnd(s, i + 1) ELSE i

\* the match of (\d+) results that starts at i, or <<>>
MatchAt(s, i) ==
    LET j == DigitsEnd(s, i)
        e == j + Len(ResultsWord) - 1
    IN IF j > i /\ e <= Len(s) /\ SubSeq(s, j, e) = ResultsWord
       THEN SubSeq(s, i, e)
       ELSE <<>>

\* pattern.FindStringSubmatch(c.Data)[0]: the leftmost match, <<>> if none
RECURSIVE FindFrom(_, _)
FindFrom(s, i) ==
    IF i > Len(s) THEN <<>>
    ELSE IF MatchAt(s, i) # <<>> THEN MatchAt(s, i)
    ELSE FindFrom(s, i + 1)

FindStringSubmatch(s) == FindFrom(s, 1)

\* c.Type == 1: html.TextNode
TextNode == 1

\* for c := s.Nodes[0].FirstChild; c != nil; c = c.NextSibling: the first
\* text-node child that matches, <<>> if none (break)
RECURSIVE FirstChildMatch(_)
FirstChildMatch(children) ==
    IF children = <<>> THEN <<>>
    ELSE IF Head(children).type = TextNode
            /\ FindStringSubmatch(Head(children).data) # <<>>
         THEN FindStringSubmatch(Head(children).data)
         ELSE FirstChildMatch(Tail(children))

\* doc.Find("div.container").Each: results is assigned in every container
\* that has a matching text node; the break leaves only the inner loop
RECURSIVE EachContainer(_, _)
EachContainer(results, containers) ==
    IF containers = <<>> THEN results
    ELSE LET m == FirstChildMatch(Head(containers))
         IN EachContainer(IF m # <<>> THEN m ELSE results, Tail(containers))

getResultCount(d) == EachContainer(<<>>, d.containers)

(***************************************************************************)
(* getTotalPages (lines 137-145)                                           *)
(***************************************************************************)
\* doc.Find("ul.pagination li.next_page").Prev().Text(): the text of the
\* element right before each li.next_page, concatenated
PrevText(lis) ==
    Concat([k \in 1..Len(lis) |->
              IF lis[k].next_page /\ k > 1 THEN lis[k - 1].text ELSE <<>>])

PageOne == <<"1">>

\* getTotalPages without the default
getTotalPagesNoDefault(d) == PrevText(d.pagination)

getTotalPages(d) ==
    LET pages == PrevText(d.pagination)
    IN IF pages = <<>> THEN PageOne ELSE pages

\* QueryResult{...} of the failure return (lines 81-85)
FailedResult == [Commits |-> <<>>, ResultCount |-> <<>>, TotalPages |-> <<>>]

\* goquery.NewDocument(url) returns an error
CrawlFetchFail ==
    /\ pc = "call"
    /\ pc' = "returned"
    /\ result' = FailedResult
    /\ err' = FetchError
    /\ UNCHANGED <<doc, args, out>>

\* goquery.NewDocument(url) returns doc: the rows, then the metadata
Crawl ==
    /\ pc = "call"
    /\ LET r == EachRow(<<>>, doc.rows)
       IN IF r.panic
          THEN /\ pc' = "panic"
               /\ UNCHANGED <<result, err>>
          ELSE /\ pc' = "returned"
               /\ result' = [Commits |-> r.commits,
                             ResultCount |-> getResultCount(doc),
                             TotalPages |-> getTotalPages(doc)]
               /\ err' = NilError
    /\ UNCHANGED <<doc, args, out>>

NextCrawl == CrawlFetchFail \/ Crawl

(***************************************************************************)
(* Documents the extraction is run on                                      *)
(***************************************************************************)
MaxRows == 2

MaxCells == 4

MaxAnchors == 3

MsgText == <<" ", "f", "i", "x", "\n">>

RepoText == <<"g", "o">>

ShaTexts == {<<>>, <<" ">>, <<"a", "1">>}

\* the href of the j-th anchor of a row
HrefOf(j) == <<"/", "u", ToString(j)>>

CellText(j, sha) ==
    IF j = 1 THEN MsgText
    ELSE IF j = 2 THEN RepoText
    ELSE IF j = 3 THEN sha
    ELSE <<"x">>

\* k td cells without anchors
TextRow(k, sha) == [j \in 1..k |-> Td(CellText(j, sha), <<>>)]

TextRows == {TextRow(k, sha) : k \in 0..MaxCells, sha \in ShaTexts}

\* message, repo and sha1 cells; the first anchor is in the repo cell, the
\* others in the sha1 cell; has[j] tells whether anchor j has an href
AnchorRow(has) ==
    LET hs == [j \in 1..Len(has) |-> IF has[j] THEN HrefOf(j) ELSE <<>>]
    IN <<Td(MsgText, <<>>),
         Td(RepoText, SubSeq(hs, 1, 1)),
         Td(<<"a", "1">>, SubSeq(hs, 2, Len(hs)))>>

AnchorRows ==
    {AnchorRow(has) : has \in UNION {[1..n -> BOOLEAN] : n \in 1..MaxAnchors}}

\* a header cell, with or without a link, alone or before the data cells
HeaderRows ==
    {<<Th(<<"h">>, IF linked THEN <<<<"/", "h">>>> ELSE <<>>)>> \o data :
        linked \in BOOLEAN, data \in {<<>>, AnchorRow(<<TRUE, TRUE>>)}}

RowSet == TextRows \cup AnchorRows \cup HeaderRows

RowSeqs == UNION {[1..n -> RowSet] : n \in 0..MaxRows}

Docs == [rows : RowSeqs, containers : {<<>>}, pagination : {<<>>}]

InitCrawl ==
    /\ pc = "call"
    /\ doc \in Docs
    /\ result = None
    /\ err = None
    /\ args = None
    /\ out = None

SpecCrawl == InitCrawl /\ [][NextCrawl]_vars

(***************************************************************************)
(* Documents the metadata extraction is run on                             *)
(***************************************************************************)
MaxLis == 2

MaxChildren == 2

MaxContainers == 2

GoodRow == AnchorRow(<<TRUE, TRUE>>)

LiSet ==
    {[next_page |-> FALSE, text |-> <<"3">>],
     [next_page |-> FALSE, text |-> <<"1", "0">>],
     [next_page |-> FALSE, text |-> <<>>],
     [next_page |-> TRUE, text |-> <<"N", "e", "x", "t">>]}

Paginations == UNION {[1..n -> LiSet] : n \in 0..MaxLis}

CountContainer == <<[type |-> TextNode, data |-> <<"1", "2">> \o ResultsWord]>>

MetaDocs ==
    [rows : {<<>>, <<GoodRow>>, <<TextRow(CellSlots + 1, <<"a", "1">>)>>},
     containers : {<<>>, <<CountContainer>>},
     pagination : Paginations]

InitMeta ==
    /\ pc = "call"
    /\ doc \in MetaDocs
    /\ result = None
    /\ err = None
    /\ args = None
    /\ out = None

SpecMeta == InitMeta /\ [][NextCrawl]_vars

TextData ==
    {<<"x">>,
     <<"1", "2">> \o ResultsWord,
     <<"7">> \o ResultsWord,
     <<"x", "3">> \o ResultsWord \o <<"4">> \o ResultsWord,
     <<"5", " ", "r", "e", "s", "u", "l", "t">>}

NodeSet ==
    {[type |-> TextNode, data |-> d] : d \in TextData}
        \cup {[type |-> 3, data |-> <<"p">>]}

Containers == UNION {[1..n -> NodeSet] : n \in 0..MaxChildren}

ContainerSeqs == UNION {[1..n -> Containers] : n \in 0..MaxContainers}

CountDocs ==
    [rows : {<<>>, <<GoodRow>>, <<TextRow(CellSlots + 1, <<"a", "1">>)>>},
     containers : ContainerSeqs,
     pagination : {<<>>}]

InitCount ==
    /\ pc = "call"
    /\ doc \in CountDocs
    /\ result = None
    /\ err = None
    /\ args = None
    /\ out = None

SpecCount == InitCount /\ [][NextCrawl]_vars

(***************************************************************************)
(* Properties of the extraction                                            *)
(***************************************************************************)
Returned == pc = "returned" /\ err = NilError

\* text of the td cell at 0-based position j of the row, "" when missing
CellTextAt(row, j) ==
    IF j + 1 <= Len(FindTd(row)) THEN FindTd(row)[j + 1].text ELSE <<>>

\* element n of seq, "" when missing
NthOrEmpty(seq, n) == IF n <= Len(seq) THEN seq[n] ELSE <<>>

NonEmpty(h) == h # <<>>

\* the commit the code makes of a row
RowCommit(row) == MakeCommit(ScanRow(row))

\* C1: the commits returned are, in document order, exactly the rows whose
\* sha1 cell text is non-empty after trimming whitespace, and a row that
\* is skipped raises no error
RECURSIVE KeepTrimmed(_)
KeepTrimmed(rows) ==
    IF rows = <<>> THEN <<>>
    ELSE (IF TrimSpace(CellTextAt(Head(rows), 2)) # <<>>
          THEN <<RowCommit(Head(rows))>> ELSE <<>>) \o KeepTrimmed(Tail(rows))

C1_TrimmedShaFilter ==
    /\ Returned => result.Commits = KeepTrimmed(doc.rows)
    /\ (\A i \in 1..Len(doc.rows) :
            TrimSpace(CellTextAt(doc.rows[i], 2)) = <<>>) => pc # "panic"

\* C9: extraction never ends in an indexing failure, whatever the number of
\* td cells and of anchors with an href in a row
C9_NoIndexingFailure == pc # "panic"

\* the hrefs of all anchors of the row, in any cell, empty ones included
AllAnchors(row) == Concat([j \in 1..Len(row) |-> row[j].anchors])

\* the non-empty hrefs of the anchors inside td cells
TdHrefs(row) ==
    SelectSeq(Concat([j \in 1..Len(FindTd(row)) |-> FindTd(row)[j].anchors]),
              NonEmpty)

PositionalCommit(row, hrefs) ==
    [Message |-> TrimSpace(CellTextAt(row, 0)),
     Repo |-> CellTextAt(row, 1),
     RepoURL |-> NthOrEmpty(hrefs, 1),
     Sha1 |-> CellTextAt(row, 2),
     CommitURL |-> NthOrEmpty(hrefs, 2)]

RECURSIVE AcceptedRows(_)
AcceptedRows(rows) ==
    IF rows = <<>> THEN <<>>
    ELSE (IF CellTextAt(Head(rows), 2) # <<>> THEN <<Head(rows)>> ELSE <<>>)
             \o AcceptedRows(Tail(rows))

\* C4 as stated: the urls of a commit are the hrefs of the first and the
\* second anchor anywhere in the row, an anchor with an empty href or
\* outside a td cell keeping its position
C4_EveryAnchorCounts ==
    Returned =>
        result.Commits =
            [i \in 1..Len(AcceptedRows(doc.rows)) |->
                PositionalCommit(AcceptedRows(doc.rows)[i],
                                 AllAnchors(AcceptedRows(doc.rows)[i]))]

\* C4 amended: message, repo and sha1 are the texts of td cells 0, 1, 2 (the
\* message trimmed), repoUrl and commitUrl the first and the second
\* non-empty href among the anchors inside the td cells of the row
C4_PositionalFields ==
    Returned =>
        result.Commits =
            [i \in 1..Len(AcceptedRows(doc.rows)) |->
                PositionalCommit(AcceptedRows(doc.rows)[i],
                                 TdHrefs(AcceptedRows(doc.rows)[i]))]

\* a commit whose urls skipped an anchor without href and a header link
C4_Witness ==
    /\ Returned
    /\ Len(result.Commits) = 2
    /\ result.Commits[1].RepoURL = HrefOf(2)
    /\ result.Commits[1].CommitURL = HrefOf(3)
    /\ result.Commits[1].Message = <<"f", "i", "x">>
    /\ doc.rows[2][1].tag = "th"
    /\ doc.rows[2][1].anchors # <<>>
    /\ result.Commits[2].RepoURL = HrefOf(1)

\* C3 as stated: totalPages of a returned QueryResult is never empty
C3_TotalPagesNeverEmpty == pc = "returned" => result.TotalPages # <<>>

HasNextPage(d) == \E k \in 1..Len(d.pagination) : d.pagination[k].next_page

\* C3 amended: a QueryResult returned with a nil error has a non-empty
\* totalPages, "1" when the document has no pagination control
C3_TotalPagesOnSuccess ==
    Returned =>
        /\ result.TotalPages # <<>>
        /\ ~HasNextPage(doc) => result.TotalPages = <<"1">>

C3_Witness ==
    /\ Returned
    /\ ~HasNextPage(doc)
    /\ doc.pagination # <<>>
    /\ result.TotalPages = <<"1">>

\* the first match in document order among the text-node children of all
\* containers
RECURSIVE FirstMatchInDocument(_)
FirstMatchInDocument(containers) ==
    IF containers = <<>> THEN <<>>
    ELSE LET texts == SelectSeq(Head(containers),
                                LAMBDA c : c.type = TextNode
                                           /\ FindStringSubmatch(c.data) # <<>>)
         IN IF texts # <<>> THEN FindStringSubmatch(texts[1].data)
            ELSE FirstMatchInDocument(Tail(containers))

\* C5: getResultCount returns the first match in document order, the one of
\* the earliest container when several containers hold a match, and the
\* empty string when there is none
C5_EarliestContainerWins ==
    Returned => result.ResultCount = FirstMatchInDocument(doc.containers)

(***************************************************************************)
(* highlightWords (lines 231-241)                                          *)
(***************************************************************************)
\* color.YellowString(s): s between the escape sequences of the colour
YellowOn == "ESC[33m"

ColorOff == "ESC[0m"

YellowString(s) == <<YellowOn>> \o s \o <<ColorOff>>

\* strings.Fields: the maximal runs of non-white-space characters
RECURSIVE FieldsFrom(_, _)
FieldsFrom(s, word) ==
    IF s = <<>> THEN (IF word = <<>> THEN <<>> ELSE <<word>>)
    ELSE IF Head(s) \in WhiteSpace
         THEN (IF word = <<>> THEN <<>> ELSE <<word>>) \o FieldsFrom(Tail(s), <<>>)
         ELSE FieldsFrom(Tail(s), Append(word, Head(s)))

Fields(s) == FieldsFrom(s, <<>>)

\* the characters regexp.QuoteMeta escapes
MetaChars ==
    {"\\", ".", "+", "*", "?", "(", ")", "|", "[", "]", "{", "}", "^", "$"}

RECURSIVE QuoteMeta(_)
QuoteMeta(w) ==
    IF w = <<>> THEN <<>>
    ELSE (IF Head(w) \in MetaChars THEN <<"\\", Head(w)>> ELSE <<Head(w)>>)
             \o QuoteMeta(Tail(w))

\* strings.Join(words, "|")
RECURSIVE Join(_, _)
Join(words, sep) ==
    IF words = <<>> THEN <<>>
    ELSE IF Len(words) = 1 THEN words[1]
    ELSE words[1] \o sep \o Join(Tail(words), sep)

\* regexp.MustCompile of an alternation of quoted words: the literal of each
\* alternative, in order; an escaped character stands for itself and the
\* empty pattern is one empty alternative
RECURSIVE CompileFrom(_, _)
CompileFrom(p, lit) ==
    IF p = <<>> THEN <<lit>>
    ELSE IF Head(p) = "\\" /\ Len(p) >= 2
         THEN CompileFrom(Tail(Tail(p)), Append(lit, p[2]))
    ELSE IF Head(p) = "|" THEN <<lit>> \o CompileFrom(Tail(p), <<>>)
    ELSE CompileFrom(Tail(p), Append(lit, Head(p)))

MustCompile(p) == CompileFrom(p, <<>>)

\* lit matches src at the 0-based offset q
LitAt(src, lit, q) ==
    q + Len(lit) <= Len(src) /\ SubSeq(src, q + 1, q + Len(lit)) = lit

\* the last alternative, in order, that matches at q
LastAltAt(src, alts, q) ==
    IF \E k \in 1..Len(alts) : LitAt(src, alts[k], q)
    THEN CHOOSE k \in 1..Len(alts) :
            /\ LitAt(src, alts[k], q)
            /\ \A j \in (k + 1)..Len(alts) : ~LitAt(src, alts[j], q)
    ELSE 0

\* leftmost-first: the first alternative, in order, that matches at q
\* (0 when none does)
FirstAltAt(src, alts, q) ==
    IF \E k \in 1..Len(alts) : LitAt(src, alts[k], q)
    THEN CHOOSE k \in 1..Len(alts) :
            /\ LitAt(src, alts[k], q)
            /\ \A j \in 1..(k - 1) : ~LitAt(src, alts[j], q)
    ELSE 0

\* the leftmost match at or after the offset p: <<start, end>>, <<>> if none
RECURSIVE FindIndex(_, _, _)
FindIndex(src, alts, p) ==
    IF p > Len(src) THEN <<>>
    ELSE IF FirstAltAt(src, alts, p) # 0
         THEN <<p, p + Len(alts[FirstAltAt(src, alts, p)])>>
         ELSE FindIndex(src, alts, p + 1)

\* Regexp.ReplaceAllStringFunc(src, YellowString): the loop of
\* regexp.replaceAll, offsets 0-based as in the library
RECURSIVE ReplaceAll(_, _, _, _)
ReplaceAll(src, alts, searchPos, lastMatchEnd) ==
    LET a == FindIndex(src, alts, searchPos)
        rest == SubSeq(src, lastMatchEnd + 1, Len(src))
    IN IF searchPos > Len(src) \/ a = <<>> THEN rest
       ELSE LET width == IF searchPos < Len(src) THEN 1 ELSE 0
                next == IF searchPos + width > a[2] THEN searchPos + width
                        ELSE IF searchPos + 1 > a[2] THEN searchPos + 1
                        ELSE a[2]
            IN SubSeq(src, lastMatchEnd + 1, a[1])
                 \o (IF a[2] > lastMatchEnd \/ a[1] = 0
                     THEN YellowString(SubSeq(src, a[1] + 1, a[2]))
                     ELSE <<>>)
                 \o ReplaceAll(src, alts, next, a[2])

Words(keyword) == [k \in 1..Len(Fields(keyword)) |-> QuoteMeta(Fields(keyword)[k])]

highlightWords(message, keyword) ==
    ReplaceAll(message, MustCompile(Join(Words(keyword), <<"|">>)), 0, 0)

HighlightWords ==
    /\ pc = "call"
    /\ pc' = "done"
    /\ out' = highlightWords(args.message, args.keyword)
    /\ UNCHANGED <<doc, result, err, args>>

MaxMessageLen == 3

MaxKeywordLen == 4

Messages == UNION {[1..n -> {"a", "A", "."}] : n \in 0..MaxMessageLen}

Keywords == UNION {[1..n -> {"a", "A", ".", " "}] : n \in 0..MaxKeywordLen}

InitHighlight ==
    /\ pc = "call"
    /\ args \in [message : Messages, keyword : Keywords]
    /\ doc = None
    /\ result = None
    /\ err = None
    /\ out = None

SpecHighlight == InitHighlight /\ [][HighlightWords]_vars

Undecorated(ch) == ch \notin {YellowOn, ColorOff}

\* the message without the escape sequences
Strip(o) == SelectSeq(o, Undecorated)

\* the decorated parts of o: <<start, end>> as 0-based offsets into Strip(o);
\* i is the index into o, pos the number of message characters before it
RECURSIVE Spans(_, _, _)
Spans(o, i, pos) ==
    IF i > Len(o) THEN <<>>
    ELSE IF o[i] = YellowOn
         THEN LET j == CHOOSE j \in (i + 1)..(Len(o) + 1) :
                          /\ j = Len(o) + 1 \/ o[j] = ColorOff
                          /\ \A k \in (i + 1)..(j - 1) : o[k] # ColorOff
              IN <<<<pos, pos + (j - i - 1)>>>> \o Spans(o, j + 1, pos + (j - i - 1))
         ELSE Spans(o, i + 1, pos + 1)

\* every escape sequence of o opens or closes one decorated part
WellDecorated(o) ==
    /\ Len(o) = Len(Strip(o)) + 2 * Len(Spans(o, 1, 0))
    /\ \A i \in 1..Len(o) :
          o[i] = YellowOn =>
              \E j \in (i + 1)..Len(o) :
                  /\ o[j] = ColorOff
                  /\ \A k \in (i + 1)..(j - 1) : Undecorated(o[k])

Covered(spans, q) == \E k \in 1..Len(spans) : spans[k][1] <= q /\ q < spans[k][2]

\* the term occurs in the message at the 0-based offset q
OccursAt(message, term, q) ==
    /\ q + Len(term) <= Len(message)
    /\ \A k \in 1..Len(term) : message[q + k] = term[k]

\* C7: for a keyword with at least one term, removing the decorations gives
\* back the message; the decorated parts are exactly the leftmost-first,
\* non-overlapping, case-sensitive literal occurrences of the terms (each
\* part is the first term, in keyword order, that occurs at its offset, and
\* no term occurs at an offset outside the parts); a message in which no
\* term occurs is returned unchanged
C7_HighlightsOccurrences ==
    (pc = "done" /\ Fields(args.keyword) # <<>>) =>
        LET terms == Fields(args.keyword)
            m == args.message
            spans == Spans(out, 1, 0)
        IN /\ Strip(out) = m
           /\ WellDecorated(out)
           /\ \A k \in 1..Len(spans) :
                 \E t \in 1..Len(terms) :
                     /\ OccursAt(m, terms[t], spans[k][1])
                     /\ spans[k][2] = spans[k][1] + Len(terms[t])
                     /\ \A u \in 1..(t - 1) : ~OccursAt(m, terms[u], spans[k][1])
           /\ \A q \in 0..(Len(m) - 1) :
                 ~Covered(spans, q) =>
                     \A t \in 1..Len(terms) : ~OccursAt(m, terms[t], q)
           /\ (\A q \in 0..Len(m), t \in 1..Len(terms) : ~OccursAt(m, terms[t], q))
                 => out = m

\* "aA." against the keyword "a aA": the first term wins over the longer one
C7_Witness ==
    /\ pc = "done"
    /\ args.keyword = <<"a", " ", "a", "A">>
    /\ args.message = <<"a", "A", ".">>
    /\ out = <<YellowOn, "a", ColorOff, "A", ".">>

(***************************************************************************)
(* Column widths and showResult (lines 147-217)                            *)
(***************************************************************************)
\* runewidth.RuneWidth: 2 columns for an East Asian wide glyph
RuneWidth(ch) == IF ch = WideGlyph THEN 2 ELSE 1

\* runewidth.StringWidth
RECURSIVE StringWidth(_)
StringWidth(s) ==
    IF s = <<>> THEN 0 ELSE RuneWidth(Head(s)) + StringWidth(Tail(s))

\* utf8.RuneCountInString
RuneCountInString(s) == Len(s)

RECURSIVE maxRepoWidth(_)
maxRepoWidth(commits) ==
    IF commits = <<>> THEN 0
    ELSE Max(StringWidth(commits[Len(commits)].Repo),
             maxRepoWidth(SubSeq(commits, 1, Len(commits) - 1)))

RECURSIVE maxMessageWidth(_)
maxMessageWidth(commits) ==
    IF commits = <<>> THEN 0
    ELSE Max(StringWidth(commits[Len(commits)].Message),
             maxMessageWidth(SubSeq(commits, 1, Len(commits) - 1)))

RECURSIVE maxURLWidth(_)
maxURLWidth(commits) ==
    IF commits = <<>> THEN 0
    ELSE Max(RuneCountInString(commits[Len(commits)].CommitURL),
             maxURLWidth(SubSeq(commits, 1, Len(commits) - 1)))

Spaces(n) == [k \in 1..n |-> " "]

\* fmt.Sprintf("%-<n>s", s): fmt pads to n runes, on the right
PadRight(s, n) == IF Len(s) < n THEN s \o Spaces(n - Len(s)) ELSE s

\* fmt.Sprintf("%<n>s", s): fmt pads to n runes, on the left
PadLeft(s, n) == IF Len(s) < n THEN Spaces(n - Len(s)) \o s ELSE s

\* the fixed width of the sha1 column
Sha1Width == 7

\* the fixed part of the separator line
SeparatorOverhead == 18

\* the lines showResult prints; a line is a record of its kind and of its
\* fields, the colours of the repo and sha1 fields left out
showResult(res, url, keyword, page) ==
    LET commits == res.Commits
        repoWidth == maxRepoWidth(commits)
        urlWidth == maxURLWidth(commits)
        msgWidth == maxMessageWidth(commits)
    IN IF Len(commits) = 0
       THEN <<[kind |-> "noresults"], [kind |-> "url", url |-> url]>>
       ELSE <<[kind |-> "summary", resultCount |-> res.ResultCount,
               page |-> page, totalPages |-> res.TotalPages],
              [kind |-> "url", url |-> url],
              [kind |-> "header",
               repo |-> PadRight(<<"R", "e", "p", "o", "s", "i", "t", "o", "r", "y">>,
                                 repoWidth),
               sha1 |-> PadRight(<<"s", "h", "a", "1">>, Sha1Width),
               url |-> PadRight(<<"u", "r", "l">>, urlWidth)],
              [kind |-> "separator",
               dashes |-> repoWidth + msgWidth + urlWidth + SeparatorOverhead]>>
            \o [k \in 1..Len(commits) |->
                  [kind |-> "row",
                   repo |-> PadRight(commits[k].Repo, repoWidth),
                   sha1 |-> PadLeft(commits[k].Sha1, Sha1Width),
                   url |-> PadRight(commits[k].CommitURL, urlWidth),
                   message |-> highlightWords(commits[k].Message, keyword)]]

ShowResult ==
    /\ pc = "call"
    /\ pc' = "done"
    /\ out' = showResult(args.result, args.url, args.keyword, args.page)
    /\ UNCHANGED <<doc, result, err, args>>

MaxCommits == 2

ShownCommits ==
    [Message : {<<"f", "i", "x">>, <<WideGlyph, "a">>},
     Repo : {<<"g", "o">>, <<WideGlyph>>, <<"a", WideGlyph, "b">>},
     RepoURL : {<<"/", "r">>},
     Sha1 : {<<"a", "1", "b", "2", "c", "3", "d">>},
     CommitURL : {<<"/", "c">>, <<"/", WideGlyph, "/", "c">>}]

ShownResults ==
    [Commits : UNION {[1..n -> ShownCommits] : n \in 0..MaxCommits},
     ResultCount : {<<"1", "2">> \o ResultsWord},
     TotalPages : {<<"3">>}]

InitShow ==
    /\ pc = "call"
    /\ args \in [result : ShownResults,
                  url : {<<"u", "r", "l">>},
                  keyword : {<<"a">>, <<"f", "i", "x", " ", "a">>},
                  page : {1, 2}]
    /\ doc = None
    /\ result = None
    /\ err = None
    /\ out = None

SpecShow == InitShow /\ [][ShowResult]_vars

Rows(o) == SelectSeq(o, LAMBDA line : line.kind = "row")

\* C6: every data row's repo field takes exactly repoWidth display columns
C6_RepoColumnAligned ==
    (pc = "done" /\ args.result.Commits # <<>>) =>
        \A k \in 1..Len(Rows(out)) :
            StringWidth(Rows(out)[k].repo) = maxRepoWidth(args.result.Commits)

\* the largest display width of a field over the commits
MaxDisplayWidth(commits, field) ==
    LET ws == {StringWidth(commits[k][field]) : k \in 1..Len(commits)} \cup {0}
    IN CHOOSE w \in ws : \A v \in ws : v <= w

\* C10: the three column widths are the largest display widths of the repo,
\* the message and the commit url, and the separator is made from them
C10_WidthsAreDisplayWidths ==
    (pc = "done" /\ args.result.Commits # <<>>) =>
        LET commits == args.result.Commits
        IN /\ maxRepoWidth(commits) = MaxDisplayWidth(commits, "Repo")
           /\ maxMessageWidth(commits) = MaxDisplayWidth(commits, "Message")
           /\ maxURLWidth(commits) = MaxDisplayWidth(commits, "CommitURL")
           /\ \A k \in 1..Len(out) :
                 out[k].kind = "separator" =>
                     out[k].dashes =
                         MaxDisplayWidth(commits, "Repo")
                           + MaxDisplayWidth(commits, "Message")
                           + MaxDisplayWidth(commits, "CommitURL")
                           + SeparatorOverhead

(***************************************************************************)
(* showResultAsJson (lines 219-229)                                        *)
(***************************************************************************)
\* json encoding of a commit: the keys of the struct tags (lines 21-27)
JsonCommit(c) ==
    [repo |-> c.Repo, repo_url |-> c.RepoURL, sha1 |-> c.Sha1,
     commit_url |-> c.CommitURL, message |-> c.Message]

\* json encoding of a JsonFormat (lines 35-38)
JsonEncode(commits, error) ==
    [kind |-> "json",
     commits |-> [k \in 1..Len(commits) |-> JsonCommit(commits[k])],
     error |-> error]

\* the records written when the error branch keeps the commits and falls
\* through to the second Encode
showResultAsJsonFallThrough(res, e) ==
    IF ~e.nil
    THEN <<JsonEncode(res.Commits, e.msg), JsonEncode(res.Commits, <<>>)>>
    ELSE <<JsonEncode(res.Commits, <<>>)>>

\* the records enc.Encode writes to os.Stdout
showResultAsJson(res, e) ==
    IF ~e.nil
    THEN <<JsonEncode(<<>>, e.msg)>>
    ELSE <<JsonEncode(res.Commits, <<>>)>>

ShowResultAsJson ==
    /\ pc = "call"
    /\ pc' = "done"
    /\ out' = showResultAsJson(args.result, args.err)
    /\ UNCHANGED <<doc, result, err, args>>

ParseError == [nil |-> FALSE, msg |-> <<"E", "O", "F">>]

JsonCommits ==
    [Message : {<<"f", "i", "x">>},
     Repo : {<<"g", "o">>, <<WideGlyph>>},
     RepoURL : {<<"/", "r">>},
     Sha1 : {<<"a", "1">>, <<"b", "2">>},
     CommitURL : {<<"/", "c">>}]

InitJson ==
    /\ pc = "call"
    /\ args \in [result : [Commits : UNION {[1..n -> JsonCommits] : n \in 0..MaxCommits},
                            ResultCount : {<<>>, <<"7">> \o ResultsWord},
                            TotalPages : {<<>>, <<"1">>}],
                  err : {NilError, FetchError, ParseError}]
    /\ doc = None
    /\ result = None
    /\ err = None
    /\ out = None

SpecJson == InitJson /\ [][ShowResultAsJson]_vars

\* C8: every call writes exactly one {commits, error} record; with a non-nil
\* error commits is empty and error is the non-empty failure description,
\* with a nil error error is empty and commits are the result's commits in
\* their order; a non-empty error implies an empty commit sequence
C8_OneJsonRecord ==
    pc = "done" =>
        /\ Len(out) = 1
        /\ out[1].kind = "json"
        /\ ~args.err.nil =>
              /\ out[1].commits = <<>>
              /\ out[1].error # <<>>
              /\ out[1].error = args.err.msg
        /\ args.err.nil =>
              /\ out[1].error = <<>>
              /\ Len(out[1].commits) = Len(args.result.Commits)
              /\ \A k \in 1..Len(out[1].commits) :
                    /\ out[1].commits[k].sha1 = args.result.Commits[k].Sha1
                    /\ out[1].commits[k].repo = args.result.Commits[k].Repo
                    /\ out[1].commits[k].repo_url = args.result.Commits[k].RepoURL
                    /\ out[1].commits[k].commit_url = args.result.Commits[k].CommitURL
                    /\ out[1].commits[k].message = args.result.Commits[k].Message
        /\ \A k \in 1..Len(out) : out[k].error # <<>> => out[k].commits = <<>>

\* an error rendered for a result that holds commits
C8_Witness ==
    /\ pc = "done"
    /\ ~args.err.nil
    /\ Len(args.result.Commits) = MaxCommits
    /\ out[1].commits = <<>>
    /\ out[1].error = args.err.msg

(***************************************************************************)
(* main (lines 40-71) and crawl(keyword, page), second variant (lines      *)
(* 296-346), the crawl that main calls                                     *)
(***************************************************************************)
DigitValue(ch) == CHOOSE d \in 0..9 : ToString(d) = ch

RECURSIVE DecimalValue(_)
DecimalValue(s) ==
    IF s = <<>> THEN 0
    ELSE 10 * DecimalValue(SubSeq(s, 1, Len(s) - 1)) + DigitValue(s[Len(s)])

\* strconv.Atoi: an optional sign and decimal digits, an error otherwise
Atoi(s) ==
    LET signed == s # <<>> /\ Head(s) \in {"+", "-"}
        digits == IF signed THEN Tail(s) ELSE s
    IN IF digits # <<>> /\ \A k \in 1..Len(digits) : digits[k] \in Digits
       THEN [ok |-> TRUE,
             val |-> IF signed /\ Head(s) = "-"
                     THEN 0 - DecimalValue(digits) ELSE DecimalValue(digits)]
       ELSE [ok |-> FALSE, val |-> 0]

\* page of app.Action: 1 unless the second argument parses
PageOf(givenPage) ==
    IF givenPage # <<>> /\ Atoi(givenPage).ok THEN Atoi(givenPage).val ELSE 1

RECURSIVE Itoa(_)
Itoa(n) ==
    IF n < 0 THEN <<"-">> \o Itoa(0 - n)
    ELSE IF n < 10 THEN <<ToString(n)>>
    ELSE Itoa(n \div 10) \o <<ToString(n % 10)>>

\* url.QueryEscape on the characters the keywords are made of: a space
\* becomes +, & is percent-encoded, letters and digits stay
RECURSIVE QueryEscape(_)
QueryEscape(s) ==
    IF s = <<>> THEN <<>>
    ELSE (IF Head(s) = " " THEN <<"+">>
          ELSE IF Head(s) = "&" THEN <<"%", "2", "6">>
          ELSE <<Head(s)>>) \o QueryEscape(Tail(s))

\* fmt.Sprintf(".../commits/search?keyword=%s&page=%d", ...)
SearchUrl(keyword, page) ==
    <<"s", "e", "a", "r", "c", "h", "?", "k", "e", "y", "w", "o", "r", "d", "=">>
        \o QueryEscape(keyword)
        \o <<"&", "p", "a", "g", "e", "=">> \o Itoa(page)

\* the cells slice of the row callback: the text of every td cell followed
\* by the non-empty hrefs of its anchors
RECURSIVE RowCells2(_)
RowCells2(tds) ==
    IF tds = <<>> THEN <<>>
    ELSE <<Head(tds).text>> \o SelectSeq(Head(tds).anchors, NonEmpty)
             \o RowCells2(Tail(tds))

\* if len(cells) < 5 { return }
MinCells2 == 5

RECURSIVE EachRow2(_)
EachRow2(rows) ==
    IF rows = <<>> THEN <<>>
    ELSE LET cells == RowCells2(FindTd(Head(rows)))
         IN (IF Len(cells) < MinCells2 THEN <<>>
             ELSE <<[Message |-> TrimSpace(cells[1]),
                     Repo |-> cells[2],
                     RepoURL |-> cells[3],
                     Sha1 |-> cells[4],
                     CommitURL |-> cells[5]]>>) \o EachRow2(Tail(rows))

getTotalPages2(d) == PrevText(d.pagination)

RECURSIVE maxRepoWidth2(_)
maxRepoWidth2(commits) ==
    IF commits = <<>> THEN 0
    ELSE Max(RuneCountInString(commits[Len(commits)].Repo),
             maxRepoWidth2(SubSeq(commits, 1, Len(commits) - 1)))

RECURSIVE maxMessageWidth2(_)
maxMessageWidth2(commits) ==
    IF commits = <<>> THEN 0
    ELSE Max(RuneCountInString(commits[Len(commits)].Message),
             maxMessageWidth2(SubSeq(commits, 1, Len(commits) - 1)))

\* showResult(commits, keyword), lines 405-430
showResult2(commits, keyword) ==
    LET repoWidth == maxRepoWidth2(commits)
        urlWidth == maxURLWidth(commits)
        msgWidth == maxMessageWidth2(commits)
    IN <<[kind |-> "header",
          repo |-> PadRight(<<"R", "e", "p", "o", "s", "i", "t", "o", "r", "y">>,
                            repoWidth),
          sha1 |-> PadRight(<<"s", "h", "a", "1">>, Sha1Width),
          url |-> PadRight(<<"u", "r", "l">>, urlWidth)],
         [kind |-> "separator",
          dashes |-> repoWidth + msgWidth + urlWidth + SeparatorOverhead]>>
         \o [k \in 1..Len(commits) |->
               [kind |-> "row",
                repo |-> PadRight(commits[k].Repo, repoWidth),
                sha1 |-> PadLeft(commits[k].Sha1, Sha1Width),
                url |-> PadRight(commits[k].CommitURL, urlWidth),
                message |-> highlightWords(commits[k].Message, keyword)]]

\* what crawl(keyword, page) prints once the document is there
crawl2(d, keyword, page) ==
    LET commits == EachRow2(d.rows)
        url == SearchUrl(keyword, page)
    IN IF Len(commits) = 0
       THEN <<[kind |-> "noresults"], [kind |-> "url", url |-> url]>>
       ELSE <<[kind |-> "summary", resultCount |-> getResultCount(d),
               page |-> page, totalPages |-> getTotalPages2(d)],
              [kind |-> "url", url |-> url]>>
            \o showResult2(commits, keyword)

\* keyword == "": cli.ShowAppHelp(c); os.Exit(1)
MainHelp ==
    /\ pc = "main"
    /\ args.keyword = <<>>
    /\ pc' = "exit1"
    /\ out' = <<[kind |-> "help"]>>
    /\ UNCHANGED <<doc, result, err, args>>

\* crawl(keyword, page), goquery.NewDocument fails: fmt.Println(err)
MainFetchFail ==
    /\ pc = "main"
    /\ args.keyword # <<>>
    /\ pc' = "done"
    /\ out' = <<[kind |-> "error", text |-> FetchError.msg]>>
    /\ UNCHANGED <<doc, result, err, args>>

\* crawl(keyword, page), the document is fetched and printed
MainCrawl ==
    /\ pc = "main"
    /\ args.keyword # <<>>
    /\ pc' = "done"
    /\ out' = crawl2(doc, args.keyword, PageOf(args.page))
    /\ UNCHANGED <<doc, result, err, args>>

NextMain == MainHelp \/ MainFetchFail \/ MainCrawl

MainDocs ==
    [rows : RowSeqs,
     containers : {<<CountContainer>>},
     pagination : {<<>>, <<[next_page |-> FALSE, text |-> <<"3">>],
                          [next_page |-> TRUE, text |-> <<"N", "e", "x", "t">>]>>}]

\* os.Args: the --json flag, the keyword and the page argument
InitMain ==
    /\ pc = "main"
    /\ args \in [json : BOOLEAN,
                  keyword : {<<>>, <<"f", "i", "x">>, <<"a", " ", "&">>},
                  page : {<<>>, <<"2">>, <<"x">>, <<"-", "1", "0">>}]
    /\ doc \in MainDocs
    /\ result = None
    /\ err = None
    /\ out = None

SpecMain == InitMain /\ [][NextMain]_vars

TableKinds == {"noresults", "url", "summary", "header", "separator", "row"}

\* C2: an invocation with a keyword ends with the output of exactly one
\* renderer, the JSON renderer when the json flag is set and the table
\* renderer otherwise; it never ends without output, and in JSON mode no
\* table text is printed
C2_RendererChosenByFlag ==
    pc = "done" =>
        /\ out # <<>>
        /\ args.json =>
              /\ Len(out) = 1
              /\ out[1].kind = "json"
        /\ \A k \in 1..Len(out) :
              /\ args.json => out[k].kind \notin TableKinds
              /\ ~args.json => out[k].kind # "json"

====
